---- MODULE Spec2Model ----
(***************************************************************************)
(* Model of the PM2.5 AQI calculator (aqi_calculator.py).                  *)
(*                                                                         *)
(* Python floats are modelled as exact rationals [num, den] in lowest      *)
(* terms with den > 0.  Decimal literals such as 12.1 are the rationals    *)
(* 121/10.  The only place where the binary representation error of a      *)
(* float can change an integer result is round() applied to an interpolant *)
(* that is exactly k + 1/2; there the outcome depends on the sign of the   *)
(* accumulated float error, which is modelled by the input fperr.          *)
(***************************************************************************)
EXTENDS Integers, Sequences, FiniteSets, TLC

\* the calculator: position, inputs and results of aqi_calculator.py
VARIABLES pc, args, conc, pm25, fperr, aqi, category

calcVars == <<pc, args, conc, pm25, fperr, aqi, category>>

\* the series generator: inputs, random source and locals of
\* generate_monthly_data
VARIABLES today, current_aqi, rng, gpc, current_date, dates, aqi_values, previous_aqi

genVars == <<today, current_aqi, rng, gpc, current_date, dates, aqi_values, previous_aqi>>

\* the store: the two tables of database_manager.py, their AUTOINCREMENT
\* counters, and the last call with its return value
VARIABLES pm25_measurements, aqi_calculations, m_seq, a_seq, op, ret

dbVars == <<pm25_measurements, aqi_calculations, m_seq, a_seq, op, ret>>

\* the application: the text of the five inputs, the held result, the result labels, the colour bar, and the
\* popups opened and calls made by the last run of a handler
VARIABLES fields, self_current_pm25, self_current_aqi,
          self_current_category, pm25_result, aqi_result, category_result,
          color_bar, popups, calls

appVars == <<fields, self_current_pm25, self_current_aqi,
             self_current_category, pm25_result, aqi_result, category_result,
             color_bar, popups, calls>>

\* the rest of a session: the reports generated, the workbook last exported,
\* and the locals of the last run of a handler when it was an import: the file
\* chosen, the records read, the import errors and the validation errors
VARIABLES reports, workbook, selection, data, errors, validation_errors

importVars == <<selection, data, errors, validation_errors>>

uiVars == <<reports, workbook, importVars>>

vars == <<calcVars, genVars, dbVars, appVars, uiVars>>

(* ---------------------------- bounds ----------------------------------- *)

\* standalone indices 0 .. MaxIndex handed to get_aqi_category
MaxIndex == 510
\* no more than MaxReports reports are generated in a session
MaxReports == 1
\* calendar dates 1 .. MaxDates known to the store
MaxDates == 2
\* no more than MaxId rows are ever inserted into a table
MaxId == 2
\* with free random draws, today is at most the MaxFreeDay-th of the month
MaxFreeDay == 3
\* standalone concentrations 0.00 .. MaxTenths/10 + 0.09
MaxTenths == 5010
\* standalone negative concentrations down to -(MaxNegTenths/10 + 0.09)
MaxNegTenths == 12
\* final mass differs from the initial mass by at most MaxMassDiff/10 mg
MaxMassDiff == 25

(* ------------------------ rational arithmetic -------------------------- *)

Abs(n) == IF n < 0 THEN -n ELSE n

RECURSIVE GCD(_, _)
GCD(a, b) == IF b = 0 THEN a ELSE GCD(b, a % b)

\* what a float division by zero leaves behind: the ZeroDivisionError that
\* propagates out of the function (every later operation yields it again)
ZeroDivisionError == [num |-> 1, den |-> 0]

\* the rational n/d in lowest terms with a positive denominator
Rat(n, d) ==
    IF d = 0 THEN ZeroDivisionError
    ELSE LET g == GCD(Abs(n), Abs(d))
             s == IF d < 0 THEN -1 ELSE 1
         IN  [num |-> s * (n \div g), den |-> s * (d \div g)]

\* an integer, and a literal with one decimal digit given in tenths
Int2Rat(n) == [num |-> n, den |-> 1]
Dec(tenths) == Rat(tenths, 10)

RatAdd(a, b) == Rat(a.num * b.den + b.num * a.den, a.den * b.den)
RatSub(a, b) == Rat(a.num * b.den - b.num * a.den, a.den * b.den)
RatMul(a, b) == Rat(a.num * b.num, a.den * b.den)
RatDiv(a, b) == Rat(a.num * b.den, a.den * b.num)
RatLeq(a, b) == a.num * b.den <= b.num * a.den
RatLt(a, b)  == a.num * b.den < b.num * a.den

\* math.trunc: the integer part, rounding toward zero
Trunc(a) == IF a.num >= 0 THEN a.num \div a.den ELSE -((-a.num) \div a.den)

Round_Floor(a, fe) == a.num \div a.den

\* round(): nearest integer; an exact half goes to the even neighbour, unless
\* the float carrying it is off by a representation error of sign fe
Round(a, fe) ==
    LET q == a.num \div a.den
        r == a.num - q * a.den
    IN  IF 2 * r < a.den THEN q
        ELSE IF 2 * r > a.den THEN q + 1
        ELSE IF fe < 0 THEN q
        ELSE IF fe > 0 THEN q + 1
        ELSE IF q % 2 = 0 THEN q ELSE q + 1

(* ------------------- calculate_pm25_concentration ---------------------- *)

\* variant: strict comparisons in the guard
calculate_pm25_concentration_Strict(mass_initial, mass_final, flow_rate, time_start, time_stop) ==
    IF RatLt(flow_rate, Int2Rat(0)) \/ RatLt(time_stop, time_start)
    THEN Int2Rat(0)
    ELSE RatMul(RatDiv(RatSub(mass_final, mass_initial),
                       RatDiv(RatMul(flow_rate, RatSub(time_stop, time_start)),
                              Int2Rat(1000))),
                Int2Rat(1000))

\* variant: the result is cut to one decimal inside the calculator
calculate_pm25_concentration_Rounded(mass_initial, mass_final, flow_rate, time_start, time_stop) ==
    IF RatLeq(flow_rate, Int2Rat(0)) \/ RatLeq(time_stop, time_start)
    THEN Int2Rat(0)
    ELSE LET r == RatMul(RatDiv(RatSub(mass_final, mass_initial),
                           RatDiv(RatMul(flow_rate, RatSub(time_stop, time_start)),
                                  Int2Rat(1000))),
                         Int2Rat(1000))
         IN  Rat(Trunc(RatMul(r, Int2Rat(10))), 10)

calculate_pm25_concentration(mass_initial, mass_final, flow_rate, time_start, time_stop) ==
    IF RatLeq(flow_rate, Int2Rat(0)) \/ RatLeq(time_stop, time_start)
    THEN Int2Rat(0)
    ELSE LET mass_diff_mg == RatSub(mass_final, mass_initial)
             volume_l == RatMul(flow_rate, RatSub(time_stop, time_start))
             volume_m3 == RatDiv(volume_l, Int2Rat(1000))
             concentration_mg_m3 == RatDiv(mass_diff_mg, volume_m3)
             concentration_ug_m3 == RatMul(concentration_mg_m3, Int2Rat(1000))
         IN  concentration_ug_m3

(* --------------------------- calculate_aqi ----------------------------- *)

BP(lo, hi, ilo, ihi) ==
    [bp_low |-> Dec(lo), bp_high |-> Dec(hi), i_low |-> ilo, i_high |-> ihi]

\* variant: the second row starts at 12.2
get_aqi_breakpoints_Gap ==
    << BP(0, 120, 0, 50),
       BP(122, 354, 51, 100),
       BP(355, 554, 101, 150),
       BP(555, 1504, 151, 200),
       BP(1505, 2504, 201, 300),
       BP(2505, 3504, 301, 400),
       BP(3505, 5004, 401, 500) >>

\* the breakpoint table, in the insertion order of the dict
get_aqi_breakpoints ==
    << BP(0, 120, 0, 50),
       BP(121, 354, 51, 100),
       BP(355, 554, 101, 150),
       BP(555, 1504, 151, 200),
       BP(1505, 2504, 201, 300),
       BP(2505, 3504, 301, 400),
       BP(3505, 5004, 401, 500) >>

\* variant: round(pm25_concentration, 1), halves upward
Truncate1_Nearest(pm25_concentration) ==
    LET x == RatAdd(RatMul(pm25_concentration, Int2Rat(10)), Rat(1, 2))
    IN  RatDiv(Int2Rat(x.num \div x.den), Int2Rat(10))

\* c = math.trunc(pm25_concentration * 10) / 10
Truncate1(pm25_concentration) ==
    RatDiv(Int2Rat(Trunc(RatMul(pm25_concentration, Int2Rat(10)))), Int2Rat(10))

\* variants: no upper test; upper bound exclusive
InRow_NoUpper(c, row) == RatLeq(row.bp_low, c)
InRow_StrictUpper(c, row) == RatLeq(row.bp_low, c) /\ RatLt(c, row.bp_high)

InRow(c, row) == RatLeq(row.bp_low, c) /\ RatLeq(c, row.bp_high)

\* the rows the loop's test accepts, and the one the loop returns from (0: none)
MatchingRows(c) ==
    {i \in 1..Len(get_aqi_breakpoints) : InRow(c, get_aqi_breakpoints[i])}

FirstRow(c) ==
    IF MatchingRows(c) = {} THEN 0
    ELSE CHOOSE i \in MatchingRows(c) : \A j \in MatchingRows(c) : i <= j

\* variant: bp_low is subtracted after the multiplication
Interpolate_Precedence(c, row) ==
    RatAdd(RatSub(RatMul(RatDiv(Int2Rat(row.i_high - row.i_low),
                                RatSub(row.bp_high, row.bp_low)),
                         c),
                  row.bp_low),
           Int2Rat(row.i_low))

\* aqi = ((i_high - i_low) / (bp_high - bp_low)) * (c - bp_low) + i_low
Interpolate(c, row) ==
    RatAdd(RatMul(RatDiv(Int2Rat(row.i_high - row.i_low),
                         RatSub(row.bp_high, row.bp_low)),
                  RatSub(c, row.bp_low)),
           Int2Rat(row.i_low))

\* variant: the test for the top of the scale is inverted
calculate_aqi_Inverted(pm25_concentration, fe) ==
    LET c == Truncate1(pm25_concentration)
        k == FirstRow(c)
    IN  IF k # 0 THEN Round(Interpolate(c, get_aqi_breakpoints[k]), fe)
        ELSE IF RatLt(c, Dec(5004)) THEN 500
        ELSE 0

calculate_aqi(pm25_concentration, fe) ==
    LET c == Truncate1(pm25_concentration)
        k == FirstRow(c)
    IN  IF k # 0 THEN Round(Interpolate(c, get_aqi_breakpoints[k]), fe)
        ELSE IF RatLt(Dec(5004), c) THEN 500
        ELSE 0

(* -------------------------- get_aqi_category --------------------------- *)

\* the RGBA tuples, in tenths
Green  == <<0, 10, 0, 10>>
Yellow == <<10, 10, 0, 10>>
Orange == <<10, 5, 0, 10>>
Red    == <<10, 0, 0, 10>>
Purple == <<5, 0, 5, 10>>
Maroon == <<5, 0, 1, 10>>

\* variant: the upper bounds are exclusive
get_aqi_category_Exclusive(index) ==
    IF 0 <= index /\ index < 50 THEN <<"Good", Green>>
    ELSE IF 51 <= index /\ index < 100 THEN <<"Moderate", Yellow>>
    ELSE IF 101 <= index /\ index < 150 THEN <<"Unhealthy for Sensitive Groups", Orange>>
    ELSE IF 151 <= index /\ index < 200 THEN <<"Unhealthy", Red>>
    ELSE IF 201 <= index /\ index < 300 THEN <<"Very Unhealthy", Purple>>
    ELSE <<"Hazardous", Maroon>>

get_aqi_category(index) ==
    IF 0 <= index /\ index <= 50 THEN <<"Good", Green>>
    ELSE IF 51 <= index /\ index <= 100 THEN <<"Moderate", Yellow>>
    ELSE IF 101 <= index /\ index <= 150 THEN <<"Unhealthy for Sensitive Groups", Orange>>
    ELSE IF 151 <= index /\ index <= 200 THEN <<"Unhealthy", Red>>
    ELSE IF 201 <= index /\ index <= 300 THEN <<"Very Unhealthy", Purple>>
    ELSE <<"Hazardous", Maroon>>

(* ------------------------------ inputs --------------------------------- *)

None == [num |-> 0, den |-> 0]
NoArgs == [mass_initial |-> None, mass_final |-> None, flow_rate |-> None,
           time_start |-> None, time_stop |-> None]

\* digits after the first decimal place, in hundredths
SubTenths == {0, 5, 9}
\* concentrations far above the table
LargeValues == {1000, 123456, 100000000}
FpErrs == {-1, 0, 1}
NoCategory == <<"", <<>> >>
Indices == 0..MaxIndex

Measurements ==
    [mass_initial : {Dec(1000), Dec(1010)},
     mass_final   : {Dec(1000 + d) : d \in (-MaxMassDiff)..MaxMassDiff},
     flow_rate    : {Dec(-10), Dec(0), Dec(50), Dec(167)},
     time_start   : {Int2Rat(0), Int2Rat(60)},
     time_stop    : {Int2Rat(0), Int2Rat(60), Int2Rat(1440)}]

Concentrations ==
       {Rat(10 * t + o, 100) : t \in 0..MaxTenths, o \in SubTenths}
    \cup {Rat(-(10 * t + o), 100) : t \in 0..MaxNegTenths, o \in SubTenths}
    \cup {Int2Rat(v) : v \in LargeValues}

(* ----------------------- generate_monthly_data ------------------------- *)

\* datetime values, as far as the generator looks at them
IsLeap(y) == (y % 4 = 0 /\ y % 100 # 0) \/ y % 400 = 0

DaysInMonth(y, m) ==
    IF m = 2 THEN (IF IsLeap(y) THEN 29 ELSE 28)
    ELSE IF m \in {4, 6, 9, 11} THEN 30
    ELSE 31

\* variant: the comparison is strict
DateLeq_Strict(a, b) ==
    \/ a.year < b.year
    \/ a.year = b.year /\ a.month < b.month
    \/ a.year = b.year /\ a.month = b.month /\ a.day < b.day

\* current_date <= today (both carry the same time of day)
DateLeq(a, b) ==
    \/ a.year < b.year
    \/ a.year = b.year /\ a.month < b.month
    \/ a.year = b.year /\ a.month = b.month /\ a.day <= b.day

\* variant: the first day of the previous month
FirstDay_PreviousMonth(t) ==
    IF t.month = 1 THEN [year |-> t.year - 1, month |-> 12, day |-> 1]
    ELSE [year |-> t.year, month |-> t.month - 1, day |-> 1]

\* today.replace(day=1)
FirstDay(t) == [t EXCEPT !.day = 1]

\* current_date + timedelta(days=1)
AddDay(d) ==
    IF d.day < DaysInMonth(d.year, d.month) THEN [d EXCEPT !.day = d.day + 1]
    ELSE IF d.month < 12 THEN [year |-> d.year, month |-> d.month + 1, day |-> 1]
    ELSE [year |-> d.year + 1, month |-> 1, day |-> 1]

\* days from Monday 2024-01-01 to the date
RECURSIVE DaysBeforeYear(_)
DaysBeforeYear(y) ==
    IF y <= 2024 THEN 0
    ELSE DaysBeforeYear(y - 1) + (IF IsLeap(y - 1) THEN 366 ELSE 365)

RECURSIVE DaysBeforeMonth(_, _)
DaysBeforeMonth(y, m) ==
    IF m = 1 THEN 0 ELSE DaysBeforeMonth(y, m - 1) + DaysInMonth(y, m - 1)

\* current_date.weekday(): 0 is Monday
Weekday(d) == (DaysBeforeYear(d.year) + DaysBeforeMonth(d.year, d.month) + d.day - 1) % 7

\* current_date.strftime("%m/%d/%Y")
Strftime(d) == <<d.month, d.day, d.year>>

\* variant: a datetime compared with a date is never equal
IsToday_Never(d, t) == FALSE

\* current_date.date() == today.date()
IsToday(d, t) == d.year = t.year /\ d.month = t.month /\ d.day = t.day

\* random.randint(a, b): the draws the random source of this run can give
RandInt(a, b) ==
    IF rng = "min" THEN {a}
    ELSE IF rng = "max" THEN {b}
    ELSE {a, b}

\* variant: March counts as a winter month
SeasonalAdjustment_March(month) ==
    IF month \in {11, 12, 1, 2, 3} THEN RandInt(10, 25)
    ELSE IF month \in {5, 6, 7, 8} THEN RandInt(-15, 5)
    ELSE {0}

SeasonalAdjustment(month) ==
    IF month \in {11, 12, 1, 2} THEN RandInt(10, 25)
    ELSE IF month \in {5, 6, 7, 8} THEN RandInt(-15, 5)
    ELSE {0}

\* the amount the weekly pattern adds
WeeklyAdjustment(weekday) ==
    IF weekday < 5 THEN RandInt(0, 10)
    ELSE {-w : w \in RandInt(0, 8)}

Max(a, b) == IF a >= b THEN a ELSE b
Min(a, b) == IF a <= b THEN a ELSE b

\* variant: only the lower bound is enforced
Clamp_NoUpper(base_aqi) == Max(15, base_aqi)

\* max(15, min(250, base_aqi))
Clamp(base_aqi) == Max(15, Min(250, base_aqi))

NoAqi == -1
Years == {2024, 2025}
CurrentAqis == {NoAqi, 5, 80, 300}
NoDate == [year |-> 0, month |-> 0, day |-> 0]

Todays ==
    {t \in [year : Years, month : 1..12, day : 1..31] : t.day <= DaysInMonth(t.year, t.month)}

\* the locals as set up before the loop
InitGen ==
    /\ today \in Todays
    /\ current_aqi \in CurrentAqis
    /\ rng \in {"min", "max", "any"}
    /\ rng = "any" => today.day <= MaxFreeDay
    /\ gpc = "loop"
    /\ current_date = FirstDay(today)
    /\ dates = <<>>
    /\ aqi_values = <<>>
    /\ previous_aqi = NoAqi

\* the generator is not running
IdleGen ==
    /\ today = NoDate
    /\ current_aqi = NoAqi
    /\ rng = "min"
    /\ gpc = "idle"
    /\ current_date = NoDate
    /\ dates = <<>>
    /\ aqi_values = <<>>
    /\ previous_aqi = NoAqi

\* one pass of the while loop that takes today's calculated value
LoopToday ==
    /\ gpc = "loop"
    /\ DateLeq(current_date, today)
    /\ IsToday(current_date, today) /\ current_aqi # NoAqi
    /\ dates' = Append(dates, Strftime(current_date))
    /\ aqi_values' = Append(aqi_values, current_aqi)
    /\ previous_aqi' = current_aqi
    /\ current_date' = AddDay(current_date)
    /\ UNCHANGED <<today, current_aqi, rng, gpc, calcVars, dbVars, appVars, uiVars>>

\* one pass of the while loop that generates a value
LoopGenerate ==
    /\ gpc = "loop"
    /\ DateLeq(current_date, today)
    /\ ~(IsToday(current_date, today) /\ current_aqi # NoAqi)
    /\ \E first \in (IF previous_aqi = NoAqi
                      THEN RandInt(40, 120)
                      ELSE {previous_aqi + variation : variation \in RandInt(-20, 20)}) :
       \E seasonal_adjustment \in SeasonalAdjustment(current_date.month) :
       \E weekly \in WeeklyAdjustment(Weekday(current_date)) :
          LET base_aqi == Clamp(first + seasonal_adjustment + weekly)
          IN  /\ aqi_values' = Append(aqi_values, base_aqi)
              /\ previous_aqi' = base_aqi
    /\ dates' = Append(dates, Strftime(current_date))
    /\ current_date' = AddDay(current_date)
    /\ UNCHANGED <<today, current_aqi, rng, gpc, calcVars, dbVars, appVars, uiVars>>

\* the loop test fails: return dates, aqi_values
Return ==
    /\ gpc = "loop"
    /\ ~DateLeq(current_date, today)
    /\ gpc' = "returned"
    /\ UNCHANGED <<today, current_aqi, rng, current_date, dates, aqi_values,
                   previous_aqi, calcVars, dbVars, appVars, uiVars>>

(* -------------------------- DatabaseManager ---------------------------- *)

Dates == 1..MaxDates

\* variant: a plain INSERT into a table without the UNIQUE(date) constraint
InsertOrReplace_Insert(table, row) == table \cup {row}

\* INSERT OR REPLACE under UNIQUE(date): the row of the same date is deleted
\* and the new row is inserted
InsertOrReplace(table, row) == {r \in table : r.date # row.date} \cup {row}

\* the row a save writes into pm25_measurements
MeasurementRow(id, date_val, rec) ==
    [id |-> id, date |-> date_val,
     initial_mass |-> rec.initial_mass, final_mass |-> rec.final_mass,
     flow_rate |-> rec.flow_rate, start_time |-> rec.start_time,
     stop_time |-> rec.stop_time]

\* the row a save writes into aqi_calculations
CalculationRow(id, measurement_id, date_val, rec) ==
    [id |-> id, measurement_id |-> measurement_id, date |-> date_val,
     concentration |-> rec.concentration, aqi_value |-> rec.aqi_value,
     category |-> rec.category]

HasRecord(date_val) == \E r \in pm25_measurements : r.date = date_val

\* variant: measurement_id is read before the first insert
save_measurement_StaleId(date_val, rec) ==
    LET measurement_id == m_seq
    IN  /\ pm25_measurements' =
              InsertOrReplace(pm25_measurements, MeasurementRow(m_seq + 1, date_val, rec))
        /\ m_seq' = m_seq + 1
        /\ aqi_calculations' =
              InsertOrReplace(aqi_calculations,
                              CalculationRow(a_seq + 1, measurement_id, date_val, rec))
        /\ a_seq' = a_seq + 1
        /\ op' = [name |-> "save_measurement", date |-> date_val, rec |-> rec,
                  had |-> HasRecord(date_val)]
        /\ ret' = TRUE

\* DatabaseManager.save_measurement: both inserts and the commit
save_measurement(date_val, rec) ==
    LET measurement_id == m_seq + 1
    IN  /\ pm25_measurements' =
              InsertOrReplace(pm25_measurements, MeasurementRow(measurement_id, date_val, rec))
        /\ m_seq' = measurement_id
        /\ aqi_calculations' =
              InsertOrReplace(aqi_calculations,
                              CalculationRow(a_seq + 1, measurement_id, date_val, rec))
        /\ a_seq' = a_seq + 1
        /\ op' = [name |-> "save_measurement", date |-> date_val, rec |-> rec,
                  had |-> HasRecord(date_val)]
        /\ ret' = TRUE

\* variant: the UPDATE has no WHERE clause
update_aqi_value_AllDates(date_val, new_aqi, new_category) ==
    /\ aqi_calculations' =
          {[r EXCEPT !.aqi_value = new_aqi, !.category = new_category] : r \in aqi_calculations}
    /\ ret' = (aqi_calculations # {})
    /\ op' = [name |-> "update_aqi_value", date |-> date_val,
              rec |-> [aqi_value |-> new_aqi, category |-> new_category],
              had |-> HasRecord(date_val)]
    /\ UNCHANGED <<pm25_measurements, m_seq, a_seq>>

\* DatabaseManager.update_aqi_value
update_aqi_value(date_val, new_aqi, new_category) ==
    /\ aqi_calculations' =
          {IF r.date = date_val
           THEN [r EXCEPT !.aqi_value = new_aqi, !.category = new_category]
           ELSE r : r \in aqi_calculations}
    /\ ret' = (\E r \in aqi_calculations : r.date = date_val)
    /\ op' = [name |-> "update_aqi_value", date |-> date_val,
              rec |-> [aqi_value |-> new_aqi, category |-> new_category],
              had |-> HasRecord(date_val)]
    /\ UNCHANGED <<pm25_measurements, m_seq, a_seq>>

\* variant: only the measurement row is deleted
delete_record_MeasurementOnly(date_val) ==
    LET result == {r \in pm25_measurements : r.date = date_val}
    IN  /\ IF result # {}
           THEN /\ pm25_measurements' = pm25_measurements \ result
                /\ UNCHANGED aqi_calculations
                /\ ret' = TRUE
           ELSE /\ UNCHANGED <<pm25_measurements, aqi_calculations>>
                /\ ret' = FALSE
        /\ op' = [name |-> "delete_record", date |-> date_val, rec |-> <<>>,
                  had |-> HasRecord(date_val)]
        /\ UNCHANGED <<m_seq, a_seq>>

\* DatabaseManager.delete_record
delete_record(date_val) ==
    LET result == {r \in pm25_measurements : r.date = date_val}
    IN  /\ IF result # {}
           THEN LET measurement_id == (CHOOSE r \in result : TRUE).id
                IN  /\ aqi_calculations' =
                          {r \in aqi_calculations : r.measurement_id # measurement_id}
                    /\ pm25_measurements' =
                          {r \in pm25_measurements : r.id # measurement_id}
                    /\ ret' = TRUE
           ELSE /\ UNCHANGED <<pm25_measurements, aqi_calculations>>
                /\ ret' = FALSE
        /\ op' = [name |-> "delete_record", date |-> date_val, rec |-> <<>>,
                  had |-> HasRecord(date_val)]
        /\ UNCHANGED <<m_seq, a_seq>>

\* DatabaseManager.clear_all_data
clear_all_data ==
    /\ aqi_calculations' = {}
    /\ pm25_measurements' = {}
    /\ ret' = TRUE
    /\ op' = [name |-> "clear_all_data", date |-> 0, rec |-> <<>>, had |-> FALSE]
    /\ UNCHANGED <<m_seq, a_seq>>

\* the rows of SELECT ... FROM aqi_calculations a JOIN pm25_measurements m
\* ON a.measurement_id = m.id, as the dicts get_all_data builds from them
JoinedRows(calculations, measurements) ==
    {[date |-> a.date, concentration |-> a.concentration, aqi_value |-> a.aqi_value,
      category |-> a.category, initial_mass |-> m.initial_mass,
      final_mass |-> m.final_mass, flow_rate |-> m.flow_rate,
      start_time |-> m.start_time, stop_time |-> m.stop_time] :
        <<a, m>> \in {p \in calculations \X measurements : p[1].measurement_id = p[2].id}}

\* ORDER BY a.date DESC
RECURSIVE OrderByDateDesc(_)
OrderByDateDesc(rows) ==
    IF rows = {} THEN <<>>
    ELSE LET first == CHOOSE r \in rows : \A q \in rows : q.date <= r.date
         IN  <<first>> \o OrderByDateDesc(rows \ {first})

\* DatabaseManager.get_all_data
get_all_data == OrderByDateDesc(JoinedRows(aqi_calculations, pm25_measurements))

NoOp == [name |-> "", date |-> 0, rec |-> <<>>, had |-> FALSE]

\* the tables as init_database creates them
InitDb ==
    /\ pm25_measurements = {}
    /\ aqi_calculations = {}
    /\ m_seq = 0
    /\ a_seq = 0
    /\ op = NoOp
    /\ ret = FALSE

\* a record a caller of the store supplies
SampleRecord ==
    [initial_mass |-> Dec(500), final_mass |-> Dec(503), flow_rate |-> Dec(167),
     start_time |-> Int2Rat(0), stop_time |-> Int2Rat(1440),
     concentration |-> Dec(125), aqi_value |-> 52, category |-> "Moderate"]

\* new index and category a caller of update_aqi_value supplies
Updates == {<<301, "Hazardous">>}

SaveMeasurement ==
    /\ m_seq < MaxId
    /\ \E date_val \in Dates : save_measurement(date_val, SampleRecord)
    /\ UNCHANGED <<calcVars, genVars, appVars, uiVars>>

UpdateAqiValue ==
    /\ \E date_val \in Dates : \E u \in Updates : update_aqi_value(date_val, u[1], u[2])
    /\ UNCHANGED <<calcVars, genVars, appVars, uiVars>>

DeleteRecord ==
    /\ \E date_val \in Dates : delete_record(date_val)
    /\ UNCHANGED <<calcVars, genVars, appVars, uiVars>>

ClearAllData ==
    /\ clear_all_data
    /\ UNCHANGED <<calcVars, genVars, appVars, uiVars>>

(* ------------------------ AQIApp.calculate_aqi ------------------------- *)

\* the text of an input: empty, blanks only, not a number, or a number
EmptyText == [kind |-> "empty", value |-> None]
BlankText == [kind |-> "blank", value |-> None]
JunkText  == [kind |-> "junk", value |-> None]
NumText(r) == [kind |-> "number", value |-> r]

\* text.strip()
Strip(t) == IF t.kind = "blank" THEN EmptyText ELSE t

\* what float(text) raises on a text that is no number
ValueError == [num |-> 2, den |-> 0]

\* float(text)
Float(t) == IF t.kind = "number" THEN t.value ELSE ValueError

\* f'{pm25_conc:.1f}'
Format1(x, fe) == Rat(Round(RatMul(x, Int2Rat(10)), fe), 10)

FieldNames == {"flow_rate", "initial_mass", "final_mass", "start_time", "stop_time"}

\* variant: a final mass below the initial mass is an error
Validate_MassIsError(flow_rate, initial_mass, final_mass, start_time, stop_time) ==
    IF RatLeq(flow_rate, Int2Rat(0))
    THEN [proceed |-> FALSE, popups |-> << <<"Error", "Flow rate must be greater than 0">> >>]
    ELSE IF RatLeq(stop_time, start_time)
    THEN [proceed |-> FALSE,
          popups |-> << <<"Error", "Stop time must be greater than start time">> >>]
    ELSE IF RatLt(final_mass, initial_mass)
    THEN [proceed |-> FALSE, popups |-> << <<"Error", "Final mass is less than initial mass">> >>]
    ELSE [proceed |-> TRUE, popups |-> <<>>]

\* variant: the flow rate is not checked
Validate_NoFlowCheck(flow_rate, initial_mass, final_mass, start_time, stop_time) ==
    IF RatLeq(stop_time, start_time)
    THEN [proceed |-> FALSE,
          popups |-> << <<"Error", "Stop time must be greater than start time">> >>]
    ELSE IF RatLt(final_mass, initial_mass)
    THEN [proceed |-> TRUE, popups |-> << <<"Warning", "Final mass is less than initial mass">> >>]
    ELSE [proceed |-> TRUE, popups |-> <<>>]

\* the checks on the converted inputs: whether the handler goes on, and the
\* popups it has opened
Validate(flow_rate, initial_mass, final_mass, start_time, stop_time) ==
    IF RatLeq(flow_rate, Int2Rat(0))
    THEN [proceed |-> FALSE, popups |-> << <<"Error", "Flow rate must be greater than 0">> >>]
    ELSE IF RatLeq(stop_time, start_time)
    THEN [proceed |-> FALSE,
          popups |-> << <<"Error", "Stop time must be greater than start time">> >>]
    ELSE IF RatLt(final_mass, initial_mass)
    THEN [proceed |-> TRUE, popups |-> << <<"Warning", "Final mass is less than initial mass">> >>]
    ELSE [proceed |-> TRUE, popups |-> <<>>]

\* the handler returns after opening the popups: nothing else changes
Rejected(opened) ==
    /\ popups' = opened
    /\ calls' = <<>>
    /\ UNCHANGED <<self_current_pm25, self_current_aqi, self_current_category,
                   pm25_result, aqi_result, category_result, color_bar, dbVars>>

\* variant: the concentration saved is the displayed, rounded one
Calculated_SavesDisplayed(v, fe, date_val) ==
    \E pm25_conc \in {calculate_pm25_concentration(v.initial_mass, v.final_mass,
                           v.flow_rate, v.start_time, v.stop_time)} :
    \E aqi_value \in {calculate_aqi(pm25_conc, fe)} :
    \E cat \in {get_aqi_category(aqi_value)} :
        /\ pm25_result' = Format1(pm25_conc, fe)
        /\ aqi_result' = aqi_value
        /\ category_result' = cat[1]
        /\ color_bar' = [aqi_value |-> aqi_value, category |-> cat[1], color |-> cat[2]]
        /\ self_current_pm25' = pm25_conc
        /\ self_current_aqi' = aqi_value
        /\ self_current_category' = cat[1]
        /\ save_measurement(date_val,
               [initial_mass |-> v.initial_mass, final_mass |-> v.final_mass,
                flow_rate |-> v.flow_rate, start_time |-> v.start_time,
                stop_time |-> v.stop_time, concentration |-> Format1(pm25_conc, fe),
                aqi_value |-> aqi_value, category |-> cat[1]])
        /\ calls' = <<"calculate_pm25_concentration", "calculate_aqi",
                      "get_aqi_category", "save_measurement">>

\* the handler computes, shows, holds and saves the result
Calculated(v, fe, date_val) ==
    \E pm25_conc \in {calculate_pm25_concentration(v.initial_mass, v.final_mass,
                           v.flow_rate, v.start_time, v.stop_time)} :
    \E aqi_value \in {calculate_aqi(pm25_conc, fe)} :
    \E cat \in {get_aqi_category(aqi_value)} :
        /\ pm25_result' = Format1(pm25_conc, fe)
        /\ aqi_result' = aqi_value
        /\ category_result' = cat[1]
        /\ color_bar' = [aqi_value |-> aqi_value, category |-> cat[1], color |-> cat[2]]
        /\ self_current_pm25' = pm25_conc
        /\ self_current_aqi' = aqi_value
        /\ self_current_category' = cat[1]
        /\ save_measurement(date_val,
               [initial_mass |-> v.initial_mass, final_mass |-> v.final_mass,
                flow_rate |-> v.flow_rate, start_time |-> v.start_time,
                stop_time |-> v.stop_time, concentration |-> pm25_conc,
                aqi_value |-> aqi_value, category |-> cat[1]])
        /\ calls' = <<"calculate_pm25_concentration", "calculate_aqi",
                      "get_aqi_category", "save_measurement">>

\* the texts a user leaves in the five inputs
Typed(flow_rate, initial_mass, final_mass, start_time, stop_time) ==
    [flow_rate |-> flow_rate, initial_mass |-> initial_mass, final_mass |-> final_mass,
     start_time |-> start_time, stop_time |-> stop_time]

FieldInputs ==
    { Typed(NumText(Dec(167)), NumText(Dec(1000)), NumText(Dec(1025)), NumText(Int2Rat(0)), NumText(Int2Rat(1440))),
      Typed(NumText(Dec(167)), NumText(Dec(1000)), NumText(Dec(990)), NumText(Int2Rat(0)), NumText(Int2Rat(1440))),
      Typed(NumText(Dec(167)), NumText(Dec(1000)), NumText(Dec(1025)), EmptyText, BlankText),
      Typed(NumText(Dec(0)), NumText(Dec(1000)), JunkText, NumText(Int2Rat(0)), NumText(Int2Rat(1440))),
      Typed(NumText(Dec(0)), NumText(Dec(1000)), NumText(Dec(1025)), NumText(Int2Rat(0)), NumText(Int2Rat(1440))),
      Typed(NumText(Dec(167)), NumText(Dec(1000)), NumText(Dec(990)), NumText(Int2Rat(60)), NumText(Int2Rat(60))) }

NoFields == Typed(EmptyText, EmptyText, EmptyText, EmptyText, EmptyText)

\* the application after build()
InitAppVars ==
    /\ fields = NoFields
    /\ self_current_pm25 = None
    /\ self_current_aqi = NoAqi
    /\ self_current_category = ""
    /\ pm25_result = None
    /\ aqi_result = NoAqi
    /\ category_result = "--"
    /\ color_bar = [aqi_value |-> 0, category |-> "Good", color |-> Green]
    /\ popups = <<>>
    /\ calls = <<>>

\* a handler other than the import has run last
NoImport ==
    /\ selection' = <<>>
    /\ data' = <<>>
    /\ errors' = <<>>
    /\ validation_errors' = <<>>

\* AQIApp.calculate_aqi on the texts f; the day and the rounding of the floats
\* are read only once the inputs have passed the checks
calculate_aqi_handler(f) ==
    LET text == [n \in FieldNames |-> Strip(f[n])]
        v == [n \in FieldNames |-> Float(text[n])]
    IN  /\ fields' = f
        /\ IF \E n \in FieldNames : text[n] = EmptyText
           THEN Rejected(<< <<"Error", "Please fill in all fields">> >>)
           ELSE IF \E n \in FieldNames : v[n] = ValueError
           THEN Rejected(<< <<"Error", "Please enter valid numbers">> >>)
           ELSE LET checked == Validate(v.flow_rate, v.initial_mass, v.final_mass,
                                        v.start_time, v.stop_time)
                IN  IF ~checked.proceed
                    THEN Rejected(checked.popups)
                    ELSE /\ m_seq < MaxId
                         /\ popups' = checked.popups
                         /\ \E fe \in FpErrs : \E date_val \in Dates :
                               Calculated(v, fe, date_val)

CalculateAqi ==
    /\ \E f \in FieldInputs : calculate_aqi_handler(f)
    /\ NoImport
    /\ UNCHANGED <<calcVars, genVars, reports, workbook>>

(* ---------------------------- excel_manager --------------------------- *)

\* a cell of a Date column: a '%Y-%m-%d' text, a text in another format, a
\* datetime cell, or an empty cell (NaN)
DateCell(kind, date_val) == [kind |-> kind, value |-> date_val]

\* record['date'].strftime('%Y-%m-%d')
Strftime_ISO(date_val) == DateCell("str", date_val)

\* what the date parsing of an import row raises on another format
BadDate == 0

\* datetime.strptime(date_str, '%Y-%m-%d').date() for a text, .date() for a
\* datetime cell
ParseDate(cell) == IF cell.kind \in {"str", "datetime"} THEN cell.value ELSE BadDate

\* round(record['concentration'], 1)
Round1(x, fe) == Rat(Round(RatMul(x, Int2Rat(10)), fe), 10)

\* the file no workbook has been written to
NoWorkbook == [exists |-> FALSE, pm25 |-> <<>>, aqi |-> <<>>]

\* ExcelManager.export_to_excel: the two sheets written, one row per record
export_to_excel(records, fe) ==
    [exists |-> TRUE,
     pm25 |-> [i \in 1..Len(records) |->
                 [Date |-> Strftime_ISO(records[i].date),
                  InitialMass |-> records[i].initial_mass,
                  FinalMass |-> records[i].final_mass,
                  FlowRate |-> records[i].flow_rate,
                  StartTime |-> records[i].start_time,
                  StopTime |-> records[i].stop_time]],
     aqi |-> [i \in 1..Len(records) |->
                 [Date |-> Strftime_ISO(records[i].date),
                  Concentration |-> Round1(records[i].concentration, fe),
                  AQIValue |-> records[i].aqi_value,
                  Category |-> records[i].category]]]

\* a float() of the row raises
RaisesInMeasurement(row) ==
    \E cell \in {row.InitialMass, row.FinalMass, row.FlowRate, row.StartTime, row.StopTime} :
        cell = ValueError

\* the first loop of import_from_excel: pm25_dict and the errors of the rows
\* that raised; the row index of iterrows starts at 0
RECURSIVE ReadMeasurements(_, _, _, _)
ReadMeasurements(rows, i, pm25_dict, errs) ==
    IF i > Len(rows) THEN [pm25_dict |-> pm25_dict, errors |-> errs]
    ELSE IF rows[i].Date.kind = "nan"
    THEN ReadMeasurements(rows, i + 1, pm25_dict, errs)
    ELSE IF ParseDate(rows[i].Date) = BadDate \/ RaisesInMeasurement(rows[i])
    THEN ReadMeasurements(rows, i + 1, pm25_dict,
                          Append(errs, <<"Error processing PM2.5 row", i - 1>>))
    ELSE LET date_obj == ParseDate(rows[i].Date)
             entry == [initial_mass |-> rows[i].InitialMass,
                       final_mass |-> rows[i].FinalMass,
                       flow_rate |-> rows[i].FlowRate,
                       start_time |-> rows[i].StartTime,
                       stop_time |-> rows[i].StopTime]
         IN  ReadMeasurements(rows, i + 1,
                 [d \in DOMAIN pm25_dict \cup {date_obj} |->
                     IF d = date_obj THEN entry ELSE pm25_dict[d]],
                 errs)

\* record = pm25_dict[date_obj].copy(); record.update({...})
MergedRecord(entry, date_obj, row) ==
    [date |-> date_obj,
     initial_mass |-> entry.initial_mass, final_mass |-> entry.final_mass,
     flow_rate |-> entry.flow_rate, start_time |-> entry.start_time,
     stop_time |-> entry.stop_time,
     concentration |-> row.Concentration, aqi_value |-> row.AQIValue,
     category |-> row.Category]

\* a record without its measurement
Unmeasured == [initial_mass |-> None, final_mass |-> None, flow_rate |-> None,
               start_time |-> None, stop_time |-> None]

\* variant: a result row without a measurement is returned as well
MergeRow_KeepsUnmatched(pm25_dict, i, row, acc) ==
    IF ParseDate(row.Date) = BadDate
    THEN [acc EXCEPT !.errors = Append(@, <<"Error processing AQI row", i - 1>>)]
    ELSE IF ParseDate(row.Date) \in DOMAIN pm25_dict
    THEN IF row.Concentration = ValueError
         THEN [acc EXCEPT !.errors = Append(@, <<"Error processing AQI row", i - 1>>)]
         ELSE [acc EXCEPT !.data =
                  Append(@, MergedRecord(pm25_dict[ParseDate(row.Date)],
                                         ParseDate(row.Date), row))]
    ELSE [data |-> Append(acc.data, MergedRecord(Unmeasured, ParseDate(row.Date), row)),
          errors |-> Append(acc.errors,
                            <<"No PM2.5 data found for date", ParseDate(row.Date)>>)]

\* the body of the second loop for one row of the AQI sheet that has a date
MergeRow(pm25_dict, i, row, acc) ==
    IF ParseDate(row.Date) = BadDate
    THEN [acc EXCEPT !.errors = Append(@, <<"Error processing AQI row", i - 1>>)]
    ELSE IF ParseDate(row.Date) \in DOMAIN pm25_dict
    THEN IF row.Concentration = ValueError
         THEN [acc EXCEPT !.errors = Append(@, <<"Error processing AQI row", i - 1>>)]
         ELSE [acc EXCEPT !.data =
                  Append(@, MergedRecord(pm25_dict[ParseDate(row.Date)],
                                         ParseDate(row.Date), row))]
    ELSE [acc EXCEPT !.errors =
             Append(@, <<"No PM2.5 data found for date", ParseDate(row.Date)>>)]

\* the second loop of import_from_excel
RECURSIVE MergeResults(_, _, _, _)
MergeResults(rows, i, pm25_dict, acc) ==
    IF i > Len(rows) THEN acc
    ELSE IF rows[i].Date.kind = "nan" THEN MergeResults(rows, i + 1, pm25_dict, acc)
    ELSE MergeResults(rows, i + 1, pm25_dict, MergeRow(pm25_dict, i, rows[i], acc))

\* ExcelManager.import_from_excel: (data, errors)
import_from_excel(file) ==
    IF ~file.exists THEN [data |-> <<>>, errors |-> << <<"File not found", 0>> >>]
    ELSE LET read == ReadMeasurements(file.pm25, 1, <<>>, <<>>)
         IN  MergeResults(file.aqi, 1, read.pm25_dict,
                          [data |-> <<>>, errors |-> read.errors])

ValidCategories ==
    {"Good", "Moderate", "Unhealthy for Sensitive Groups", "Unhealthy",
     "Very Unhealthy", "Hazardous"}

\* the checks of validate_data on record i
RecordErrors(i, record) ==
       (IF RatLeq(record.flow_rate, Int2Rat(0))
        THEN << <<i, "Flow rate must be positive">> >> ELSE <<>>)
    \o (IF RatLeq(record.stop_time, record.start_time)
        THEN << <<i, "Stop time must be greater than start time">> >> ELSE <<>>)
    \o (IF RatLt(record.concentration, Int2Rat(0))
        THEN << <<i, "Concentration cannot be negative">> >> ELSE <<>>)
    \o (IF ~(0 <= record.aqi_value /\ record.aqi_value <= 500)
        THEN << <<i, "AQI value must be between 0 and 500">> >> ELSE <<>>)
    \o (IF record.category \notin ValidCategories
        THEN << <<i, "Invalid category">> >> ELSE <<>>)

RECURSIVE ValidateFrom(_, _)
ValidateFrom(records, i) ==
    IF i > Len(records) THEN <<>>
    ELSE RecordErrors(i, records[i]) \o ValidateFrom(records, i + 1)

\* ExcelManager.validate_data
validate_data(records) == ValidateFrom(records, 1)

(* ------------------------ the other handlers --------------------------- *)

\* what the other handlers leave alone: the inputs, the held result, the
\* labels and the colour bar
heldVars == <<fields, self_current_pm25, self_current_aqi, self_current_category,
              pm25_result, aqi_result, category_result, color_bar>>

\* variant: the handlers do not look for the attribute
HasCurrentAqi_Always == TRUE

\* hasattr(self, 'current_aqi')
HasCurrentAqi == self_current_aqi # NoAqi

\* AQIApp.generate_html_report and AQIApp.generate_pdf_report: kind is "html"
\* or "pdf"; rendering and writing the file may raise
generate_report(kind) ==
    /\ IF ~HasCurrentAqi
       THEN /\ popups' = << <<"Error", "Please calculate AQI first">> >>
            /\ calls' = <<>>
            /\ UNCHANGED reports
       ELSE /\ calls' = <<IF kind = "html" THEN "save_report" ELSE "save_pdf_report">>
            /\ \/ /\ Len(reports) < MaxReports
                  /\ reports' = Append(reports, [kind |-> kind, pm25 |-> self_current_pm25,
                                                 aqi |-> self_current_aqi])
                  /\ popups' = << <<"Success", "Report generated">> >>
               \/ /\ popups' = << <<"Error", "Error generating report">> >>
                  /\ UNCHANGED reports
    /\ NoImport
    /\ UNCHANGED <<heldVars, workbook>>

GenerateHtmlReport ==
    /\ generate_report("html")
    /\ UNCHANGED <<calcVars, genVars, dbVars>>

GeneratePdfReport ==
    /\ generate_report("pdf")
    /\ UNCHANGED <<calcVars, genVars, dbVars>>

\* AQIApp.export_to_excel
ExportToExcel ==
    /\ IF get_all_data = <<>>
       THEN /\ popups' = << <<"No Data", "No data available to export">> >>
            /\ calls' = <<"get_all_data">>
            /\ UNCHANGED workbook
       ELSE /\ \E fe \in FpErrs : workbook' = export_to_excel(get_all_data, fe)
            /\ popups' = << <<"Success", "Data exported successfully">> >>
            /\ calls' = <<"get_all_data", "export_to_excel">>
    /\ NoImport
    /\ UNCHANGED <<heldVars, reports>>
    /\ UNCHANGED <<calcVars, genVars, dbVars>>

\* the store as a value
Store == [pm25_measurements |-> pm25_measurements, aqi_calculations |-> aqi_calculations,
          m_seq |-> m_seq, a_seq |-> a_seq]

\* the store after save_measurement of one imported record
Saved(db, record) ==
    [pm25_measurements |->
         InsertOrReplace(db.pm25_measurements,
                         MeasurementRow(db.m_seq + 1, record.date, record)),
     m_seq |-> db.m_seq + 1,
     aqi_calculations |->
         InsertOrReplace(db.aqi_calculations,
                         CalculationRow(db.a_seq + 1, db.m_seq + 1, record.date, record)),
     a_seq |-> db.a_seq + 1]

\* the store after the first n records of the loop 'for record in data'
RECURSIVE SaveAll(_, _, _)
SaveAll(records, n, db) ==
    IF n = 0 THEN db ELSE Saved(SaveAll(records, n - 1, db), records[n])

ImportWarnings(import_errors) ==
    IF import_errors # <<>>
    THEN << <<"Import Warnings", "Import completed with errors">> >> ELSE <<>>

\* variant: the records are saved whatever validate_data reports
MaySave_Always(verrs) == TRUE

\* the test 'if validation_errors: ... return' before the saving loop
MaySave(verrs) == verrs = <<>>

\* AQIApp.import_data_callback on the selection sel
import_data_callback(sel) ==
    /\ selection' = sel
    /\ IF sel = <<>>
       THEN /\ data' = <<>> /\ errors' = <<>> /\ validation_errors' = <<>>
            /\ popups' = <<>> /\ calls' = <<>>
            /\ UNCHANGED dbVars
       ELSE \E imported \in {import_from_excel(sel[1])} :
            /\ data' = imported.data
            /\ errors' = imported.errors
            /\ IF imported.data = <<>>
               THEN /\ validation_errors' = <<>>
                    /\ popups' = ImportWarnings(imported.errors)
                                     \o << <<"No Data", "No valid data found in file">> >>
                    /\ calls' = <<"import_from_excel">>
                    /\ UNCHANGED dbVars
               ELSE \E verrs \in {validate_data(imported.data)} :
                    /\ validation_errors' = verrs
                    /\ IF ~MaySave(verrs)
                       THEN /\ popups' = ImportWarnings(imported.errors)
                                     \o << <<"Validation Errors", "Data validation errors">> >>
                            /\ calls' = <<"import_from_excel", "validate_data">>
                            /\ UNCHANGED dbVars
                       ELSE \E n \in {Len(imported.data)} :
                            \E before \in {SaveAll(imported.data, n - 1, Store)} :
                            \E after \in {Saved(before, imported.data[n])} :
                            /\ m_seq + n <= MaxId
                            /\ pm25_measurements' = after.pm25_measurements
                            /\ aqi_calculations' = after.aqi_calculations
                            /\ m_seq' = after.m_seq
                            /\ a_seq' = after.a_seq
                            /\ op' = [name |-> "save_measurement",
                                      date |-> imported.data[n].date,
                                      rec |-> imported.data[n],
                                      had |-> \E r \in before.pm25_measurements :
                                                 r.date = imported.data[n].date]
                            /\ ret' = TRUE
                            /\ popups' = ImportWarnings(imported.errors)
                                     \o << <<"Import Complete", "Successfully imported records">> >>
                            /\ calls' = <<"import_from_excel", "validate_data">>
                                            \o [i \in 1..n |-> "save_measurement"]
    /\ UNCHANGED <<heldVars, reports, workbook>>

\* rows of a workbook a user may have prepared
MeasurementCells(date_cell, flow_rate, final_mass) ==
    [Date |-> date_cell, InitialMass |-> Dec(500), FinalMass |-> final_mass,
     FlowRate |-> flow_rate, StartTime |-> Int2Rat(0), StopTime |-> Int2Rat(1440)]

ResultCells(date_cell, aqi_value) ==
    [Date |-> date_cell, Concentration |-> Dec(125), AQIValue |-> aqi_value,
     Category |-> "Moderate"]

\* the files a user may choose: a missing file; two dates in both sheets; a
\* result row without a measurement row; a record that does not validate
\* beside one that does; rows without a date and rows that raise
Files ==
    { NoWorkbook,
      [exists |-> TRUE,
       pm25 |-> << MeasurementCells(DateCell("str", 1), Dec(167), Dec(503)),
                   MeasurementCells(DateCell("datetime", MaxDates), Dec(167), Dec(503)) >>,
       aqi |-> << ResultCells(DateCell("str", 1), 52),
                  ResultCells(DateCell("datetime", MaxDates), 52) >>],
      [exists |-> TRUE,
       pm25 |-> << MeasurementCells(DateCell("str", 1), Dec(167), Dec(503)) >>,
       aqi |-> << ResultCells(DateCell("str", MaxDates), 52),
                  ResultCells(DateCell("str", 1), 52) >>],
      [exists |-> TRUE,
       pm25 |-> << MeasurementCells(DateCell("str", 1), Dec(167), Dec(503)),
                   MeasurementCells(DateCell("str", MaxDates), Dec(0), Dec(503)) >>,
       aqi |-> << ResultCells(DateCell("str", 1), 52),
                  ResultCells(DateCell("str", MaxDates), 501) >>],
      [exists |-> TRUE,
       pm25 |-> << MeasurementCells(DateCell("nan", 0), Dec(167), Dec(503)),
                   MeasurementCells(DateCell("str", 1), Dec(167), ValueError),
                   MeasurementCells(DateCell("junk", 0), Dec(167), Dec(503)) >>,
       aqi |-> << ResultCells(DateCell("nan", 0), 52),
                  ResultCells(DateCell("str", 1), 52),
                  ResultCells(DateCell("junk", 0), 52) >>] }

ImportDataCallback ==
    /\ \E sel \in {<<>>} \cup {<<file>> : file \in Files \cup {workbook}} :
          import_data_callback(sel)
    /\ UNCHANGED <<calcVars, genVars>>

\* a session that has just been started
InitUiVars ==
    /\ reports = <<>>
    /\ workbook = NoWorkbook
    /\ selection = <<>>
    /\ data = <<>>
    /\ errors = <<>>
    /\ validation_errors = <<>>

(* --------------------------- state machine ----------------------------- *)

\* either a measurement is ready for the calculator, or a bare concentration
\* is ready for calculate_aqi, or a bare index is ready for get_aqi_category
InitCalc ==
    /\ conc = None
    /\ category = NoCategory
    /\ \/ pc = "args" /\ args \in Measurements /\ pm25 = None
          /\ fperr \in FpErrs /\ aqi = -1
       \/ pc = "value" /\ args = NoArgs /\ pm25 \in Concentrations
          /\ fperr \in FpErrs /\ aqi = -1
       \/ pc = "index" /\ args = NoArgs /\ pm25 = None
          /\ fperr = 0 /\ aqi \in Indices

\* the calculator is not running
IdleCalc ==
    /\ pc = "idle"
    /\ args = NoArgs
    /\ conc = None
    /\ pm25 = None
    /\ fperr = 0
    /\ aqi = -1
    /\ category = NoCategory

Init ==
    /\ InitCalc
    /\ IdleGen
    /\ InitDb
    /\ InitAppVars
    /\ InitUiVars

\* pm25_conc = calculate_pm25_concentration(...)
Concentration ==
    /\ pc = "args"
    /\ conc' = calculate_pm25_concentration(args.mass_initial, args.mass_final,
                   args.flow_rate, args.time_start, args.time_stop)
    /\ pc' = "conc"
    /\ UNCHANGED <<args, pm25, fperr, aqi, category, genVars, dbVars, appVars, uiVars>>

\* aqi_value = calculate_aqi(pm25_conc); not reached when the calculator raised
AqiOfConcentration ==
    /\ pc = "conc"
    /\ conc # ZeroDivisionError
    /\ pm25' = conc
    /\ aqi' = calculate_aqi(conc, fperr)
    /\ pc' = "done"
    /\ UNCHANGED <<args, conc, fperr, category, genVars, dbVars, appVars, uiVars>>

\* calculate_aqi called on a concentration of its own
AqiOfValue ==
    /\ pc = "value"
    /\ aqi' = calculate_aqi(pm25, fperr)
    /\ pc' = "done"
    /\ UNCHANGED <<args, conc, pm25, fperr, category, genVars, dbVars, appVars, uiVars>>

\* category, color = get_aqi_category(aqi_value)
CategoryOfAqi ==
    /\ pc = "done"
    /\ category' = get_aqi_category(aqi)
    /\ pc' = "categorized"
    /\ UNCHANGED <<args, conc, pm25, fperr, aqi, genVars, dbVars, appVars, uiVars>>

\* get_aqi_category called on an index of its own
CategoryOfIndex ==
    /\ pc = "index"
    /\ category' = get_aqi_category(aqi)
    /\ pc' = "categorized"
    /\ UNCHANGED <<args, conc, pm25, fperr, aqi, genVars, dbVars, appVars, uiVars>>

Next ==
    \/ Concentration
    \/ AqiOfConcentration
    \/ AqiOfValue
    \/ CategoryOfAqi
    \/ CategoryOfIndex

Spec == Init /\ [][Next]_vars

\* the series generator on its own
NextGen == LoopToday \/ LoopGenerate \/ Return

InitSpecGen ==
    /\ InitGen
    /\ IdleCalc
    /\ InitDb
    /\ InitAppVars
    /\ InitUiVars

SpecGen == InitSpecGen /\ [][NextGen]_vars

\* a started call keeps running until it returns
FairSpecGen == SpecGen /\ WF_vars(NextGen)

\* the application: its handlers and the calls into the store
InitApp ==
    /\ IdleCalc
    /\ IdleGen
    /\ InitDb
    /\ InitAppVars
    /\ InitUiVars

NextApp ==
    \/ CalculateAqi
    \/ SaveMeasurement
    \/ UpdateAqiValue
    \/ DeleteRecord
    \/ ClearAllData

SpecApp == InitApp /\ [][NextApp]_vars

\* a session of calculations and report requests
NextReport ==
    \/ CalculateAqi
    \/ GenerateHtmlReport
    \/ GeneratePdfReport

SpecReport == InitApp /\ [][NextReport]_vars

\* a session of calculations, exports and imports
NextExcel ==
    \/ CalculateAqi
    \/ ExportToExcel
    \/ ImportDataCallback

SpecExcel == InitApp /\ [][NextExcel]_vars

(* ============================ properties =============================== *)

Zero == Int2Rat(0)
Returned == pc \in {"conc", "done"} /\ args # NoArgs
Degenerate == RatLeq(args.flow_rate, Zero) \/ RatLeq(args.time_stop, args.time_start)

\* C1: for every concentration (negative, zero, inside the table or far above
\* it) calculate_aqi returns an integer index in the closed range 0..500.
C1_IndexInRange == pc = "done" => aqi \in 0..500

C1_Witness == pc = "done" /\ pm25 = Int2Rat(100000000) /\ aqi \in 0..500

\* C2: calculate_pm25_concentration returns a non-negative concentration for
\* every input tuple, also when final_mass is less than initial_mass.
C2_NonNegative == Returned => conc.num >= 0

\* C3: whenever flow_rate <= 0 or stop_time <= start_time the calculator
\* returns exactly 0 and does not raise, whatever the two masses are.
C3_DegenerateIsZero == (Returned /\ Degenerate) => conc = Zero

C3_Witness ==
    /\ Returned
    /\ args.flow_rate = Zero
    /\ args.mass_final # args.mass_initial
    /\ conc = Zero

\* C4: for flow_rate > 0 and stop_time > start_time the returned c satisfies
\* c * flow_rate * (stop_time - start_time) = (final_mass - initial_mass) * 10^6
\* exactly: nothing is rounded inside the calculator.
C4_ExactConcentration ==
    (Returned /\ ~Degenerate) =>
        RatMul(RatMul(conc, args.flow_rate), RatSub(args.time_stop, args.time_start))
          = RatMul(RatSub(args.mass_final, args.mass_initial), Int2Rat(1000000))

C4_Witness ==
    /\ Returned /\ ~Degenerate
    /\ conc.den > 10
    /\ RatLt(Zero, conc)

\* C5: calculate_aqi maps each row's lower concentration bound to the row's
\* lower index bound and its upper concentration bound to its upper index
\* bound (12.0 -> 50, 12.1 -> 51, 35.4 -> 100, 35.5 -> 101), and every
\* one-decimal concentration from 0.0 to 500.4 lies in exactly one row.
C5_RowBounds ==
    pc = "done" =>
        /\ \A i \in 1..Len(get_aqi_breakpoints) :
              /\ pm25 = get_aqi_breakpoints[i].bp_low => aqi = get_aqi_breakpoints[i].i_low
              /\ pm25 = get_aqi_breakpoints[i].bp_high => aqi = get_aqi_breakpoints[i].i_high
        /\ pm25 = Dec(120) => aqi = 50
        /\ pm25 = Dec(121) => aqi = 51
        /\ pm25 = Dec(354) => aqi = 100
        /\ pm25 = Dec(355) => aqi = 101
        /\ (RatLeq(Zero, pm25) /\ RatLeq(pm25, Dec(5004)) /\ pm25.den \in {1, 2, 5, 10})
              => Cardinality(MatchingRows(pm25)) = 1

C5_Witness == pc = "done" /\ pm25 = Dec(121) /\ aqi = 51

\* the measurement of the worked example: 100 mg -> 102.5 mg at 16.7 L/min
\* from minute 0 to minute 1440
ExampleArgs ==
    [mass_initial |-> Dec(1000), mass_final |-> Dec(1025), flow_rate |-> Dec(167),
     time_start |-> Int2Rat(0), time_stop |-> Int2Rat(1440)]

ExampleRow(index) ==
    /\ Truncate1(conc) = Dec(1039)
    /\ FirstRow(Truncate1(conc)) = 4
    /\ get_aqi_breakpoints[4] = BP(555, 1504, 151, 200)
    /\ aqi = index

\* C6 as stated: for the worked example the concentration truncates to 103.9,
\* selects the row [55.5,150.4] -> [151,200], and calculate_aqi returns 175.
C6_Original == (pc = "done" /\ args = ExampleArgs) => ExampleRow(175)

\* C6 (amended): for the worked example the concentration truncates to 103.9,
\* selects the row [55.5,150.4] -> [151,200], and calculate_aqi returns 176
\* (the interpolant is 175.99...).
C6_Example == (pc = "done" /\ args = ExampleArgs) => ExampleRow(176)

C6_Witness == pc = "done" /\ args = ExampleArgs /\ aqi = 176

\* C7: every concentration above 500.4, however large, gives exactly 500,
\* also one such as 500.45 that truncates back to 500.4.
C7_AboveScale == (pc = "done" /\ RatLt(Dec(5004), pm25)) => aqi = 500

C7_Witness ==
    /\ pc = "done"
    /\ pm25 = Rat(50045, 100)
    /\ Truncate1(pm25) = Dec(5004)
    /\ aqi = 500

\* C8: every concentration below 0 gives 0 and does not raise, both in
\* (-0.1, 0), which truncates to zero, and at or below -0.1, which matches no
\* row.
C8_BelowScale ==
    (pc = "done" /\ RatLt(pm25, Zero)) =>
        /\ aqi = 0
        /\ RatLt(Dec(-1), pm25) => Truncate1(pm25) = Zero
        /\ RatLeq(pm25, Dec(-1)) => MatchingRows(Truncate1(pm25)) = {}

C8_Witness ==
    /\ pc = "done"
    /\ RatLeq(pm25, Dec(-1))
    /\ MatchingRows(Truncate1(pm25)) = {}
    /\ aqi = 0

\* floor(10 * c) / 10
Floor1(c) == Rat(RatMul(c, Int2Rat(10)).num \div RatMul(c, Int2Rat(10)).den, 10)

\* C9: for c >= 0 calculate_aqi(c) = calculate_aqi(floor(10c)/10): the result
\* depends on c only through its value cut to one decimal, so 12.09 gets the
\* lower row's index 50.
C9_TruncationOnly ==
    (pc = "done" /\ RatLeq(Zero, pm25)) =>
        /\ aqi = calculate_aqi(Floor1(pm25), fperr)
        /\ pm25 = Rat(1209, 100) => aqi = 50

C9_Witness == pc = "done" /\ pm25 = Rat(1209, 100) /\ aqi = 50

\* the first row, in ascending table order, that contains c
LeastRow(c) ==
    CHOOSE i \in 1..Len(get_aqi_breakpoints) :
        /\ RatLeq(get_aqi_breakpoints[i].bp_low, c)
        /\ RatLeq(c, get_aqi_breakpoints[i].bp_high)
        /\ \A j \in 1..(i - 1) : ~(/\ RatLeq(get_aqi_breakpoints[j].bp_low, c)
                                    /\ RatLeq(c, get_aqi_breakpoints[j].bp_high))

\* (I_hi - I_lo) * (c - C_lo) / (C_hi - C_lo) + I_lo
ExactInterpolant(c, row) ==
    RatAdd(RatDiv(RatMul(Int2Rat(row.i_high - row.i_low), RatSub(c, row.bp_low)),
                  RatSub(row.bp_high, row.bp_low)),
           Int2Rat(row.i_low))

Distance(a, b) == IF RatLeq(a, b) THEN RatSub(b, a) ELSE RatSub(a, b)

\* C10: for a truncated concentration lying in a row, the returned integer is
\* within 1/2 of the exact linear interpolant of the first matching row.
C10_NearestInteger ==
    (pc = "done" /\ MatchingRows(Truncate1(pm25)) # {}) =>
        RatLeq(Distance(Int2Rat(aqi),
                        ExactInterpolant(Truncate1(pm25),
                            get_aqi_breakpoints[LeastRow(Truncate1(pm25))])),
               Rat(1, 2))

C10_Witness ==
    /\ pc = "done"
    /\ pm25 = Dec(54)
    /\ ExactInterpolant(pm25, get_aqi_breakpoints[1]) = Rat(45, 2)
    /\ aqi = 23

\* the concentrations of the grid that follow c within two tenths, up to 12.0
\* (non-decreasing along the whole grid is non-decreasing from each point to
\* the points that follow it)
FirstRowSuccessors(c) ==
    LET t0 == Trunc(RatMul(c, Int2Rat(10)))
    IN  {b \in {Rat(10 * t + o, 100) : t \in t0..(t0 + 2), o \in SubTenths} :
            RatLeq(c, b) /\ RatLeq(b, Dec(120))}

\* the float error of a second call: the same float gives the same error
FpErrsFor(b) == IF Truncate1(b) = Truncate1(pm25) THEN {fperr} ELSE FpErrs

\* C11: for all concentrations in [0.0, 12.0] calculate_aqi lies in 0..50 and
\* is monotonically non-decreasing in the concentration.
C11_FirstRowMonotone ==
    (pc = "done" /\ RatLeq(Zero, pm25) /\ RatLeq(pm25, Dec(120))) =>
        /\ aqi \in 0..50
        /\ \A b \in FirstRowSuccessors(pm25) : \A fe \in FpErrsFor(b) :
              aqi <= calculate_aqi(b, fe)

C11_Witness ==
    /\ pc = "done"
    /\ pm25 = Dec(118)
    /\ aqi = 49
    /\ Dec(120) \in FirstRowSuccessors(pm25)
    /\ calculate_aqi(Dec(120), 0) = 50

\* the six bands of the index scale
Bands ==
    { [lo |-> 0,   hi |-> 50,  label |-> "Good", colour |-> Green],
      [lo |-> 51,  hi |-> 100, label |-> "Moderate", colour |-> Yellow],
      [lo |-> 101, hi |-> 150, label |-> "Unhealthy for Sensitive Groups", colour |-> Orange],
      [lo |-> 151, hi |-> 200, label |-> "Unhealthy", colour |-> Red],
      [lo |-> 201, hi |-> 300, label |-> "Very Unhealthy", colour |-> Purple],
      [lo |-> 301, hi |-> 500, label |-> "Hazardous", colour |-> Maroon] }

\* C12: get_aqi_category partitions the indices 0..500 into exactly 6 bands
\* (0-50, 51-100, 101-150, 151-200, 201-300, 301-500) with inclusive upper
\* bounds; every index gets exactly one label and one colour.
C12_SixBands ==
    (pc = "categorized" /\ aqi \in 0..500) =>
        /\ Cardinality(Bands) = 6
        /\ Cardinality({b \in Bands : b.lo <= aqi /\ aqi <= b.hi}) = 1
        /\ \A b \in Bands :
              (b.lo <= aqi /\ aqi <= b.hi) => category = <<b.label, b.colour>>
        /\ Cardinality({b.label : b \in Bands}) = 6
        /\ Cardinality({b.colour : b \in Bands}) = 6

C12_Witness ==
    /\ pc = "categorized"
    /\ aqi = 300
    /\ category = <<"Very Unhealthy", Purple>>

\* the large values that are not below c (c <= v iff the ceiling of c <= v)
LargeSuccessors(c) == {Int2Rat(v) : v \in {w \in LargeValues : -((-c.num) \div c.den) <= w}}

\* the concentrations that follow c: within one tenth, in hundredths, up to
\* the end of the grid, and the large values from there on
Successors(c) ==
    IF RatLt(c, Dec(MaxTenths))
    THEN {b \in {Rat(Trunc(RatMul(c, Int2Rat(100))) + d, 100) : d \in 1..10} : RatLeq(c, b)}
    ELSE IF RatLt(c, Dec(MaxTenths + 1))
    THEN {b \in {Rat(Trunc(RatMul(c, Int2Rat(100))) + d, 100) : d \in 1..10} : RatLeq(c, b)}
         \cup LargeSuccessors(c)
    ELSE LargeSuccessors(c)

\* C22: calculate_aqi is monotonically non-decreasing over the whole real
\* line: for all concentrations a <= b (negative, within a row, across row
\* boundaries, above 500.4) calculate_aqi(a) <= calculate_aqi(b).  A chain
\* of steps of at most one tenth links any two concentrations of the grid.
C22_Monotone ==
    (pc = "done" /\ args = NoArgs) =>
        \A b \in Successors(pm25) : \A fe \in FpErrsFor(b) :
            aqi <= calculate_aqi(b, fe)

C22_Witness ==
    /\ pc = "done"
    /\ pm25 = Rat(-5, 100)
    /\ aqi = 0
    /\ calculate_aqi(Dec(5004), 0) = 500
    /\ calculate_aqi(Int2Rat(1000), 0) = 500
    /\ Int2Rat(1000) \in Successors(Rat(10 * MaxTenths + 9, 100))
    /\ Int2Rat(100000000) \in Successors(Int2Rat(123456))
    /\ Cardinality(Successors(pm25)) = 10

\* the label of each breakpoint row
RowLabels ==
    <<"Good", "Moderate", "Unhealthy for Sensitive Groups", "Unhealthy",
      "Very Unhealthy", "Hazardous", "Hazardous">>

\* C23: for every one-decimal concentration in a breakpoint row the index
\* lies in that row's index range, so the category of the computed index is
\* fixed by the row: rows 1-5 give Good, Moderate, Unhealthy for Sensitive
\* Groups, Unhealthy, Very Unhealthy, rows 6 and 7 both give Hazardous.
C23_RowFixesCategory ==
    (pc = "categorized" /\ pm25 # None /\ pm25.den \in {1, 2, 5, 10}) =>
        \A i \in 1..Len(get_aqi_breakpoints) :
            LET row == get_aqi_breakpoints[i]
            IN  (RatLeq(row.bp_low, pm25) /\ RatLeq(pm25, row.bp_high)) =>
                    /\ row.i_low <= aqi /\ aqi <= row.i_high
                    /\ category[1] = RowLabels[i]

C23_Witness ==
    /\ pc = "categorized"
    /\ pm25 = Dec(3505)
    /\ aqi = 401
    /\ category[1] = "Hazardous"
    /\ Len(RowLabels) = Len(get_aqi_breakpoints)

(* ----------------------- generate_monthly_data ------------------------- *)

GenReturned == gpc = "returned"

\* the date a formatted entry stands for
Strptime(str) == [year |-> str[3], month |-> str[1], day |-> str[2]]

\* C13: generate_monthly_data returns two sequences of exactly D entries, D
\* being today's day of the month; the dates are the consecutive calendar days
\* from the 1st of today's month through today, strictly increasing.
C13_MonthToDate ==
    GenReturned =>
        /\ Len(dates) = today.day
        /\ Len(aqi_values) = Len(dates)
        /\ \A i \in 1..Len(dates) :
              dates[i] = Strftime([year |-> today.year, month |-> today.month, day |-> i])
        /\ \A i \in 1..(Len(dates) - 1) :
              /\ AddDay(Strptime(dates[i])) = Strptime(dates[i + 1])
              /\ ~DateLeq(Strptime(dates[i + 1]), Strptime(dates[i]))

C13_Witness ==
    /\ GenReturned
    /\ today.day = 5
    /\ current_aqi = 80
    /\ Len(dates) = 5
    /\ Len(aqi_values) = 5

\* C14: with a current_aqi that is not None, whatever the random draws, the
\* last entry equals current_aqi exactly, neither clamped nor perturbed (so two
\* runs with the same anchor agree on it).
C14_AnchorExact ==
    (GenReturned /\ current_aqi # NoAqi) =>
        /\ Len(aqi_values) >= 1
        /\ aqi_values[Len(aqi_values)] = current_aqi

C14_Witness ==
    /\ GenReturned
    /\ current_aqi = 300
    /\ Len(aqi_values) = 3
    /\ aqi_values[3] = 300
    /\ aqi_values[2] < 250

\* C15: in every run, for every month, weekday pattern and sequence of draws,
\* each entry for a day before today lies in 15..250.
C15_BackfillInBounds ==
    \A i \in 1..Len(aqi_values) :
        i < today.day => (15 <= aqi_values[i] /\ aqi_values[i] <= 250)

C15_Witness ==
    /\ GenReturned
    /\ \E i \in 2..Len(aqi_values) :
          /\ i < today.day
          /\ aqi_values[i - 1] = 250
          /\ aqi_values[i] = 250
    /\ rng = "max"

\* C18: every call terminates, and the day loop runs at most 31 times (never
\* more often than today's day of the month).
C18_Terminates ==
    /\ [](gpc # "idle" => (Len(dates) <= today.day /\ Len(dates) <= 31))
    /\ <>GenReturned

C18_Witness == GenReturned /\ Len(dates) = 31

\* entry i was generated, not taken from current_aqi
Backfilled(i) == ~(i = today.day /\ current_aqi # NoAqi)

\* C19: for every backfilled day with a predecessor, the day's value minus the
\* previous day's value is within -43..55 in any month and within -28..30 in
\* the months outside Nov-Feb and May-Aug, the clamp included.
C19_DailyChange ==
    \A i \in 2..Len(aqi_values) :
        Backfilled(i) =>
            /\ aqi_values[i] - aqi_values[i - 1] \in -43..55
            /\ today.month \in {3, 4, 9, 10} =>
                  aqi_values[i] - aqi_values[i - 1] \in -28..30

C19_Witness ==
    /\ GenReturned
    /\ Len(aqi_values) >= 2
    /\ Backfilled(2)
    /\ aqi_values[2] - aqi_values[1] = 55

(* ------------------------- store and application ----------------------- *)

RowsOf(table, date_val) == {r \in table : r.date = date_val}

\* C16: after any sequence of save_measurement, update_aqi_value,
\* delete_record and clear_all_data calls the store holds at most one
\* measurement row and at most one calculation row per date, and a save of a
\* date that already has a record leaves exactly the newly supplied values.
C16_OneRecordPerDate ==
    /\ \A date_val \in Dates :
          /\ Cardinality(RowsOf(pm25_measurements, date_val)) <= 1
          /\ Cardinality(RowsOf(aqi_calculations, date_val)) <= 1
    /\ op.name = "save_measurement" =>
          /\ \A m \in RowsOf(pm25_measurements, op.date) :
                m = MeasurementRow(m.id, op.date, op.rec)
          /\ \A a \in RowsOf(aqi_calculations, op.date) :
                a = CalculationRow(a.id, a.measurement_id, op.date, op.rec)
          /\ RowsOf(pm25_measurements, op.date) # {}
          /\ RowsOf(aqi_calculations, op.date) # {}

C16_Witness ==
    /\ op.name = "save_measurement"
    /\ op.had
    /\ op.rec = SampleRecord
    /\ self_current_aqi = 176
    /\ Cardinality(pm25_measurements) = 1
    /\ Cardinality(aqi_calculations) = 1

\* C24: after any sequence of save_measurement, update_aqi_value,
\* delete_record and clear_all_data calls, repeated saves of a date included,
\* every calculation row references through measurement_id an existing
\* measurement row of the same date, every measurement row has such a
\* calculation row, and get_all_data returns exactly one joined record per
\* stored date.
C24_RowsPaired ==
    /\ \A a \in aqi_calculations :
          \E m \in pm25_measurements : m.id = a.measurement_id /\ m.date = a.date
    /\ \A m \in pm25_measurements :
          \E a \in aqi_calculations : a.measurement_id = m.id /\ a.date = m.date
    /\ Len(get_all_data) = Cardinality({m.date : m \in pm25_measurements})
    /\ \A m \in pm25_measurements :
          Cardinality({i \in 1..Len(get_all_data) : get_all_data[i].date = m.date}) = 1
    /\ \A i \in 1..Len(get_all_data) :
          \E m \in pm25_measurements : m.date = get_all_data[i].date

C24_Witness ==
    /\ op.name = "save_measurement"
    /\ op.had
    /\ m_seq = 2
    /\ \E a \in aqi_calculations : a.measurement_id = 2 /\ a.date = op.date
    /\ Len(get_all_data) = 1
    /\ get_all_data[1].date = op.date
    /\ get_all_data[1].aqi_value = op.rec.aqi_value

\* C28: update_aqi_value for a date with no stored record returns False and
\* leaves the store unchanged; for a date with a record it returns True and
\* changes only that date's index and category: that date's concentration
\* and measurement fields and all other dates' records stay as they were.
C28_UpdateFrame ==
    [][UpdateAqiValue =>
         /\ ret' = HasRecord(op'.date)
         /\ pm25_measurements' = pm25_measurements
         /\ ~HasRecord(op'.date) => aqi_calculations' = aqi_calculations
         /\ HasRecord(op'.date) =>
               /\ RowsOf(aqi_calculations', op'.date) =
                     {[a EXCEPT !.aqi_value = op'.rec.aqi_value,
                                !.category = op'.rec.category] :
                         a \in RowsOf(aqi_calculations, op'.date)}
               /\ RowsOf(aqi_calculations', op'.date) # {}
               /\ \A d \in Dates \ {op'.date} :
                     RowsOf(aqi_calculations', d) = RowsOf(aqi_calculations, d)
      ]_vars

C28_Witness ==
    /\ op.name = "update_aqi_value"
    /\ ret
    /\ Cardinality(aqi_calculations) = 2
    /\ \E a \in RowsOf(aqi_calculations, op.date) :
          /\ a.aqi_value = 301 /\ a.category = "Hazardous"
          /\ a.concentration = SampleRecord.concentration
    /\ \E a \in aqi_calculations : a.date # op.date /\ a.aqi_value # 301

\* C29: delete_record for a date with a stored record returns True and
\* removes both that date's measurement row and its calculation row while
\* every other date's rows stay as they were; for a date with no record it
\* returns False and leaves the store unchanged.
C29_DeleteFrame ==
    [][DeleteRecord =>
         /\ ret' = HasRecord(op'.date)
         /\ RowsOf(pm25_measurements', op'.date) = {}
         /\ RowsOf(aqi_calculations', op'.date) = {}
         /\ \A d \in Dates \ {op'.date} :
               /\ RowsOf(pm25_measurements', d) = RowsOf(pm25_measurements, d)
               /\ RowsOf(aqi_calculations', d) = RowsOf(aqi_calculations, d)
         /\ ~HasRecord(op'.date) =>
               UNCHANGED <<pm25_measurements, aqi_calculations>>
      ]_vars

C29_Witness ==
    /\ op.name = "delete_record"
    /\ op.had
    /\ ret
    /\ Cardinality(pm25_measurements) = 1
    /\ Cardinality(aqi_calculations) = 1
    /\ m_seq = 2
    /\ RowsOf(pm25_measurements, op.date) = {}

AllNumbers(f) == \A n \in FieldNames : Strip(f[n]).kind = "number"

\* numeric inputs with flow_rate > 0, stop_time > start_time and a final mass
\* below the initial mass
MassLoss(f) ==
    /\ AllNumbers(f)
    /\ RatLt(Zero, f.flow_rate.value)
    /\ RatLt(f.start_time.value, f.stop_time.value)
    /\ RatLt(f.final_mass.value, f.initial_mass.value)

\* C17: the calculate handler does not reject an input with final_mass <
\* initial_mass: it opens a warning and still computes concentration, index
\* and category, updates the held result and saves the record for today.
C17_MassLossIsWarning ==
    [][(CalculateAqi /\ MassLoss(fields')) =>
         /\ \E i \in 1..Len(popups') : popups'[i][1] = "Warning"
         /\ \A i \in 1..Len(popups') : popups'[i][1] # "Error"
         /\ calls' = <<"calculate_pm25_concentration", "calculate_aqi",
                       "get_aqi_category", "save_measurement">>
         /\ self_current_pm25' # None
         /\ self_current_aqi' \in 0..500
         /\ self_current_category' # ""
         /\ aqi_result' = self_current_aqi'
         /\ op'.name = "save_measurement" /\ ret'
         /\ \E m \in RowsOf(pm25_measurements', op'.date) :
               /\ m.initial_mass = fields'.initial_mass.value
               /\ m.final_mass = fields'.final_mass.value
               /\ m.flow_rate = fields'.flow_rate.value
               /\ m.start_time = fields'.start_time.value
               /\ m.stop_time = fields'.stop_time.value
         /\ \E a \in RowsOf(aqi_calculations', op'.date) :
               /\ a.concentration = self_current_pm25'
               /\ a.aqi_value = self_current_aqi'
               /\ a.category = self_current_category'
      ]_vars

C17_Witness ==
    /\ MassLoss(fields)
    /\ Len(popups) = 1 /\ popups[1][1] = "Warning"
    /\ RatLt(self_current_pm25, Zero)
    /\ self_current_aqi = 0
    /\ self_current_category = "Good"
    /\ op.name = "save_measurement"
    /\ \E m \in pm25_measurements : RatLt(m.final_mass, m.initial_mass)

\* a field is empty or not a number, or flow_rate <= 0, or stop_time <= start_time
Invalid(f) ==
    \/ \E n \in FieldNames : Strip(f[n]).kind \in {"empty", "junk"}
    \/ /\ AllNumbers(f)
       /\ \/ RatLeq(f.flow_rate.value, Zero)
          \/ RatLeq(f.stop_time.value, f.start_time.value)

\* C20: on an empty or non-numeric field, flow_rate <= 0 or stop_time <=
\* start_time the calculate handler returns before calling the calculator:
\* the held concentration, index and category and the stored records stay as
\* they were.
C20_RejectedLeavesState ==
    [][(CalculateAqi /\ Invalid(fields')) =>
         /\ calls' = <<>>
         /\ UNCHANGED <<self_current_pm25, self_current_aqi, self_current_category,
                        pm25_measurements, aqi_calculations>>
      ]_vars

C20_Witness ==
    /\ Invalid(fields)
    /\ popups = << <<"Error", "Flow rate must be greater than 0">> >>
    /\ calls = <<>>
    /\ self_current_aqi = 176
    /\ pm25_measurements # {}

\* C30: after every successful run of the calculate handler the held result
\* is consistent: current_aqi = calculate_aqi(current_pm25), current_category
\* = get_aqi_category(current_aqi), and the record passed to save_measurement
\* for today carries exactly that concentration, index and category together
\* with the validated inputs.
C30_HeldResultConsistent ==
    [][(CalculateAqi /\ calls' # <<>>) =>
         /\ \E fe \in FpErrs : self_current_aqi' = calculate_aqi(self_current_pm25', fe)
         /\ self_current_category' = get_aqi_category(self_current_aqi')[1]
         /\ self_current_pm25' =
               calculate_pm25_concentration(fields'.initial_mass.value,
                   fields'.final_mass.value, fields'.flow_rate.value,
                   fields'.start_time.value, fields'.stop_time.value)
         /\ op'.name = "save_measurement"
         /\ op'.rec =
               [initial_mass |-> fields'.initial_mass.value,
                final_mass |-> fields'.final_mass.value,
                flow_rate |-> fields'.flow_rate.value,
                start_time |-> fields'.start_time.value,
                stop_time |-> fields'.stop_time.value,
                concentration |-> self_current_pm25',
                aqi_value |-> self_current_aqi',
                category |-> self_current_category']
         /\ AllNumbers(fields')
         /\ RatLt(Zero, fields'.flow_rate.value)
         /\ RatLt(fields'.start_time.value, fields'.stop_time.value)
      ]_vars

C30_Witness ==
    /\ calls # <<>>
    /\ op.name = "save_measurement"
    /\ self_current_pm25.den > 10
    /\ op.rec.concentration = self_current_pm25
    /\ self_current_aqi = 176
    /\ op.rec.aqi_value = 176
    /\ self_current_category = "Unhealthy"
    /\ op.rec.category = "Unhealthy"

(* ------------------------- reports, export, import --------------------- *)

\* C26: in any sequence of user actions in one session an HTML or PDF report
\* is generated only after at least one calculation has completed
\* successfully; a report request made before any successful calculation is
\* refused and produces no report.
C26_ReportAfterCalculation ==
    /\ [](reports # <<>> => (self_current_aqi # NoAqi /\ m_seq > 0))
    /\ [][((GenerateHtmlReport \/ GeneratePdfReport) /\ self_current_aqi = NoAqi) =>
            /\ reports' = reports
            /\ popups' = << <<"Error", "Please calculate AQI first">> >>
            /\ calls' = <<>>
         ]_vars
    /\ [][reports' # reports =>
            /\ self_current_aqi # NoAqi
            /\ \E kind \in {"html", "pdf"} :
                  reports' = Append(reports, [kind |-> kind, pm25 |-> self_current_pm25,
                                              aqi |-> self_current_aqi])
         ]_vars

C26_Witness ==
    /\ Len(reports) = 1
    /\ reports[1].kind = "pdf"
    /\ reports[1].aqi = 176
    /\ self_current_aqi = 176
    /\ popups = << <<"Success", "Report generated">> >>

\* the dates a sheet has rows for
SheetDates(rows) == {ParseDate(rows[i].Date) : i \in 1..Len(rows)} \ {BadDate}

\* C21: import_from_excel returns only records whose date appears in both
\* the measurement sheet and the result sheet; a result row whose date has no
\* measurement row is reported in the error list and is not returned; each
\* returned record carries the measurement fields and the result fields of
\* the same date.
C21_JoinedByDate ==
    selection # <<>> =>
        /\ \A i \in 1..Len(data) :
              /\ data[i].date \in SheetDates(selection[1].pm25)
              /\ data[i].date \in SheetDates(selection[1].aqi)
              /\ \E j \in 1..Len(selection[1].pm25) :
                    /\ ParseDate(selection[1].pm25[j].Date) = data[i].date
                    /\ data[i].initial_mass = selection[1].pm25[j].InitialMass
                    /\ data[i].final_mass = selection[1].pm25[j].FinalMass
                    /\ data[i].flow_rate = selection[1].pm25[j].FlowRate
                    /\ data[i].start_time = selection[1].pm25[j].StartTime
                    /\ data[i].stop_time = selection[1].pm25[j].StopTime
              /\ \E k \in 1..Len(selection[1].aqi) :
                    /\ ParseDate(selection[1].aqi[k].Date) = data[i].date
                    /\ data[i].concentration = selection[1].aqi[k].Concentration
                    /\ data[i].aqi_value = selection[1].aqi[k].AQIValue
                    /\ data[i].category = selection[1].aqi[k].Category
        /\ \A d \in SheetDates(selection[1].aqi) \ SheetDates(selection[1].pm25) :
              /\ \E e \in 1..Len(errors) : errors[e] = <<"No PM2.5 data found for date", d>>
              /\ \A i \in 1..Len(data) : data[i].date # d

C21_Witness ==
    /\ selection # <<>>
    /\ Len(selection[1].aqi) = 2
    /\ Len(data) = 1
    /\ data[1].date = 1
    /\ errors = << <<"No PM2.5 data found for date", MaxDates>> >>

\* a record that validate_data accepts
ValidRecord(r) ==
    /\ RatLt(Zero, r.flow_rate)
    /\ RatLt(r.start_time, r.stop_time)
    /\ RatLeq(Zero, r.concentration)
    /\ 0 <= r.aqi_value /\ r.aqi_value <= 500
    /\ r.category \in ValidCategories

\* C27: in import_data_callback, if validate_data reports at least one error
\* for any imported record, no record of that file is saved and the store is
\* left unchanged; records are written only when every imported record
\* validates.
C27_ImportAllOrNothing ==
    [][ImportDataCallback =>
         /\ (\/ validation_errors' # <<>>
             \/ \E i \in 1..Len(data') : ~ValidRecord(data'[i]))
               => UNCHANGED <<pm25_measurements, aqi_calculations, m_seq, a_seq>>
         /\ <<pm25_measurements, aqi_calculations>>' # <<pm25_measurements, aqi_calculations>>
               => /\ validation_errors' = <<>>
                  /\ \A i \in 1..Len(data') : ValidRecord(data'[i])
      ]_vars

C27_Witness ==
    /\ Len(data) = 2
    /\ ValidRecord(data[1])
    /\ ~ValidRecord(data[2])
    /\ Len(validation_errors) = 2
    /\ pm25_measurements = {}
    /\ calls = <<"import_from_excel", "validate_data">>

\* C25: every record written by the calculate handler passes validate_data
\* with no errors after being exported and re-imported: its flow_rate is
\* positive, its stop_time exceeds its start_time, its concentration is not
\* negative, its index is within 0..500 and its category is one of the six
\* accepted labels.
C25_WrittenRecordValidates ==
    (calls = <<"calculate_pm25_concentration", "calculate_aqi",
               "get_aqi_category", "save_measurement">>) =>
        \A fe \in FpErrs :
            LET written == [date |-> op.date] @@ op.rec
                imported == import_from_excel(export_to_excel(<<written>>, fe))
            IN  /\ imported.errors = <<>>
                /\ Len(imported.data) = 1
                /\ validate_data(imported.data) = <<>>
                /\ ValidRecord(imported.data[1])

====
